---- MODULE Spec2Model ----
(***************************************************************************)
(* woodgate.model: the Definition class (path resolution in the class      *)
(* body, get_tokenizer, create_model) and ModelSummary.print.              *)
(*                                                                         *)
(* A path is a sequence of tokens: the separator "/" or a file name.       *)
(* Python's optional values (an unset environment variable, None) are      *)
(* sets of at most one element; unbound locals are empty sequences.        *)
(***************************************************************************)
EXTENDS Integers, Sequences, FiniteSets, TLC

\* ------------------------------------------------------------------ bounds
\* how many times the class body is executed (first import, then re-runs)
MaxLoads == 2
\* the largest max_sequence_length / number_of_intents a call is given
MaxSeqLen == 2
MaxIntents == 2

\* ------------------------------------------------------------------- paths
SEP == "/"

IsAbs(p) == Len(p) > 0 /\ p[1] = SEP

\* posixpath.join(a, b)
PathJoin(a, b) ==
    IF IsAbs(b) THEN b
    ELSE IF a = <<>> \/ a[Len(a)] = SEP THEN a \o b
    ELSE a \o <<SEP>> \o b

\* the names a path walks through
Components(p) == SelectSeq(p, LAMBDA t : t # SEP)

\* the process's working directory, as components from the root
Cwd == <<"cwd">>

\* the directory entry a path names: relative paths start at the cwd
Resolve(p) == IF IsAbs(p) THEN Components(p) ELSE Cwd \o Components(p)

Front(c) == SubSeq(c, 1, Len(c) - 1)

IsPrefix(c, d) == Len(c) <= Len(d) /\ SubSeq(d, 1, Len(c)) = c

\* ------------------------------------------------------------- environment
EnvNames == {"BERT_DIR", "BERT_CONFIG", "BERT_MODEL"}

\* a mutant of Getenv: the variable is never consulted
GetenvIgnored(e, name, default) == default

\* os.getenv(name, default)
Getenv(e, name, default) ==
    IF e[name] = {} THEN default ELSE CHOOSE v \in e[name] : TRUE

\* ------------------------------------------------------------- file system
\* dirs, files: the entries that exist; readonly: directories in which no
\* entry may be created
Exists(fs, c) == c \in fs.dirs \/ c \in fs.files

\* os.mkdir on the entry c
Mkdir(fs, c) ==
    IF c = <<>> THEN [fs |-> fs, err |-> "FileExistsError"]
    ELSE IF Front(c) \in fs.files THEN [fs |-> fs, err |-> "NotADirectoryError"]
    ELSE IF Front(c) \notin fs.dirs THEN [fs |-> fs, err |-> "FileNotFoundError"]
    ELSE IF Exists(fs, c) THEN [fs |-> fs, err |-> "FileExistsError"]
    ELSE IF Front(c) \in fs.readonly THEN [fs |-> fs, err |-> "PermissionError"]
    ELSE [fs |-> [fs EXCEPT !.dirs = @ \cup {c}], err |-> ""]

RECURSIVE MakedirsAt(_, _, _)
\* os.makedirs on the entry c: the missing parents first, then the leaf
MakedirsAt(fs, c, exist_ok) ==
    LET head == Front(c)
        up == IF c # <<>> /\ head # <<>> /\ ~Exists(fs, head)
              THEN MakedirsAt(fs, head, exist_ok)
              ELSE [fs |-> fs, err |-> ""]
    IN  IF up.err \notin {"", "FileExistsError"} THEN up
        ELSE LET leaf == Mkdir(up.fs, c)
             IN  IF leaf.err = "" THEN leaf
                 ELSE IF exist_ok /\ c \in up.fs.dirs
                      THEN [fs |-> up.fs, err |-> ""]
                      ELSE leaf

\* a mutant of Makedirs: exist_ok is dropped
MakedirsStrict(fs, p, exist_ok) == MakedirsAt(fs, Resolve(p), FALSE)

\* os.makedirs(p, exist_ok=exist_ok)
Makedirs(fs, p, exist_ok) ==
    IF p = <<>> THEN [fs |-> fs, err |-> "FileNotFoundError"]
    ELSE MakedirsAt(fs, Resolve(p), exist_ok)

\* --------------------------------------------------------------- class body
\* the statements of the class body of Definition, in order
ClassBody(e, base, fs) ==
    LET dir == Getenv(e, "BERT_DIR", PathJoin(base, <<"bert">>))
        made == Makedirs(fs, dir, TRUE)
    IN  [err |-> made.err,
         fs |-> made.fs,
         bert_dir |-> dir,
         bert_config |->
             Getenv(e, "BERT_CONFIG", PathJoin(dir, <<"bert_config.json">>)),
         bert_model |->
             Getenv(e, "BERT_MODEL", PathJoin(dir, <<"bert_model.ckpt">>))]

\* ------------------------------------------------------------------- state
VARIABLES
    env,                \* os.environ: variable name -> unset ({}) or {value}
    woodgate_base_dir,  \* FileSystemConfiguration.woodgate_base_dir
    fs,                 \* the directories and files on disk
    config_file,        \* what the file at bert_config holds
    ckpt_file,          \* what the checkpoint at bert_model holds
    vocab_file,         \* what <bert_dir>/vocab.txt holds
    status,             \* the class: "unloaded", "ready", "failed"
    loads,              \* times the class body has been executed
    bert_dir, bert_config, bert_model,   \* the class attributes
    pc,                 \* "idle", or the statement create_model is to run next
    args,               \* create_model's arguments
    reader,             \* the GFile of the with block
    frame,              \* create_model's locals and the objects it has built
    trace,              \* the steps the current (or last) create_model has run
    outcome,            \* how the current (or last) create_model stands
    models,             \* the returned model the caller holds, if any
    ret,                \* what the last finished operation gave its caller
    stdout              \* the last summary written to standard output

paths == <<bert_dir, bert_config, bert_model>>
disk == <<config_file, ckpt_file, vocab_file>>
resolver == <<env, woodgate_base_dir, fs, status, loads, bert_dir, bert_config,
              bert_model>>
assembler == <<pc, args, reader, frame, trace, outcome, models>>
vars == <<env, woodgate_base_dir, fs, config_file, ckpt_file, vocab_file, status,
          loads, bert_dir, bert_config, bert_model, pc, args, reader, frame,
          trace, outcome, models, ret, stdout>>

None == {}
Unset == <<>>

EmptyFrame ==
    [bc |-> <<>>, bert_params |-> <<>>, bert |-> <<>>, tensor |-> <<>>,
     model |-> <<>>, objs |-> <<>>]

NoValue == [op |-> "", kind |-> "none"]

\* ------------------------------------------------------------------ inputs
BaseDirs == {<<SEP, "wg">>, <<SEP, "wg", SEP>>}

\* an absolute path, a relative path and the empty string
DirValues == {<<SEP, "enc">>, <<"enc">>, <<>>}
ConfigValues == {<<SEP, "c.json">>, <<"cfg", SEP, "c.json">>}
ModelValues == {<<SEP, "m.ckpt">>, <<"ckpt", SEP, "m.ckpt">>}

Option(S) == {None} \cup {{v} : v \in S}

Environments ==
    {[n \in EnvNames |-> CASE n = "BERT_DIR" -> d
                           [] n = "BERT_CONFIG" -> c
                           [] OTHER -> m] :
        d \in Option(DirValues), c \in Option(ConfigValues),
        m \in Option(ModelValues)}

\* every entry's parent is a directory
WellFormed(f) ==
    /\ f.dirs \cap f.files = {}
    /\ \A c \in f.dirs \cup f.files : c # <<>> => Front(c) \in f.dirs

FileSystems ==
    {f \in [dirs : {{<<>>, Cwd} \cup D :
                      D \in SUBSET {<<"wg">>, <<"wg", "bert">>, <<"enc">>,
                                    <<"cwd", "enc">>}},
            files : {{}, {<<"enc">>}, {<<"wg">>}, {<<"wg", "bert">>}},
            readonly : {{}, {<<>>}}] : WellFormed(f)}

Missing == [state |-> "missing"]
Malformed == [state |-> "malformed"]

ConfigFiles ==
    {Missing, Malformed,
     [state |-> "valid", adapter_size |-> None, hidden_size |-> 768,
      max_position_embeddings |-> MaxSeqLen],
     [state |-> "valid", adapter_size |-> {64}, hidden_size |-> 768,
      max_position_embeddings |-> 1]}

CkptFiles ==
    {Missing, [state |-> "unreadable"],
     [state |-> "valid", w |-> 2], [state |-> "valid", w |-> 3]}

VocabFiles == {Missing, [state |-> "valid", tokens |-> <<"[CLS]", "a">>]}

\* values a freshly built layer's parameters may start with
InitialWeights == {0, 1}

\* --------------------------------------------------------- class Definition
\* the class statement: the body runs; an exception leaves no class
ClassInit ==
    /\ pc = "idle"
    /\ loads < MaxLoads
    /\ LET r == ClassBody(env, woodgate_base_dir, fs)
       IN  /\ fs' = r.fs
           /\ IF r.err = ""
              THEN /\ status' = "ready"
                   /\ bert_dir' = r.bert_dir
                   /\ bert_config' = r.bert_config
                   /\ bert_model' = r.bert_model
              ELSE /\ status' = "failed"
                   /\ bert_dir' = Unset
                   /\ bert_config' = Unset
                   /\ bert_model' = Unset
    /\ loads' = loads + 1
    /\ UNCHANGED <<env, woodgate_base_dir, disk, assembler, ret, stdout>>

InitResolver ==
    /\ env \in Environments
    /\ woodgate_base_dir \in BaseDirs
    /\ fs \in FileSystems
    /\ config_file = Missing /\ ckpt_file = Missing /\ vocab_file = Missing
    /\ status = "unloaded" /\ loads = 0
    /\ bert_dir = Unset /\ bert_config = Unset /\ bert_model = Unset
    /\ pc = "idle" /\ args = <<>> /\ reader = "none" /\ frame = EmptyFrame
    /\ trace = <<>> /\ outcome = "none"
    /\ models = <<>> /\ ret = NoValue /\ stdout = <<>>

NextResolver == ClassInit

SpecResolver == InitResolver /\ [][NextResolver]_vars

\* ------------------------------------------------- create_model: the library
\* a mutant of FromJsonString: text that is no config yields default values
FromJsonStringLenient(text) ==
    [err |-> "",
     bc |-> IF text.state = "valid"
            THEN [adapter_size |-> text.adapter_size,
                  hidden_size |-> text.hidden_size,
                  max_position_embeddings |-> text.max_position_embeddings]
            ELSE [adapter_size |-> None, hidden_size |-> 768,
                  max_position_embeddings |-> MaxSeqLen]]

\* StockBertConfig.from_json_string(text): raises on text that is no config
FromJsonString(text) ==
    IF text.state = "valid"
    THEN [err |-> "",
          bc |-> [adapter_size |-> text.adapter_size,
                  hidden_size |-> text.hidden_size,
                  max_position_embeddings |-> text.max_position_embeddings]]
    ELSE [err |-> "JSONDecodeError"]

\* map_stock_config_to_params(bc)
MapStockConfigToParams(bc) ==
    [adapter_size |-> bc.adapter_size,
     hidden_size |-> bc.hidden_size,
     max_position_embeddings |-> bc.max_position_embeddings]

\* a mutant of DisableAdapter: the assignment is missing
KeepAdapter(params) == params

\* bert_params.adapter_size = None
DisableAdapter(params) == [params EXCEPT !.adapter_size = None]

\* a mutant of FromParams: one encoder layer, built once, serves every call
FromParamsCached(params, name, id) ==
    [id |-> 1, kind |-> "BertModelLayer", name |-> name, params |-> params,
     w |-> <<>>]

\* BertModelLayer.from_params(bert_params, name="bert"): no weights yet
FromParams(params, name, id) ==
    [id |-> id, kind |-> "BertModelLayer", name |-> name, params |-> params,
     w |-> <<>>]

\* a mutant of GFileExit: the handle is left as it is
GFileLeak(r) == r

\* GFile.__exit__: the handle is closed however the block is left
GFileExit(r) == "closed"

\* keras.layers.Input(shape=(L,), dtype='int32', name="input_ids")
InputLayer(L, id) ==
    [id |-> id, kind |-> "InputLayer", name |-> "input_ids", shape |-> <<L>>,
     dtype |-> "int32"]

\* keras.layers.Lambda(lambda seq: seq[:, 0, :])
FirstToken(id) == [id |-> id, kind |-> "Lambda", position |-> 0]

\* keras.layers.Dropout(0.5), the rate as a fraction
Dropout(id) == [id |-> id, kind |-> "Dropout", rate |-> <<1, 2>>]

\* keras.layers.Dense(units=768, activation="tanh")(x)
HiddenDense(id, w0) ==
    [id |-> id, kind |-> "Dense", units |-> 768, activation |-> "tanh",
     w |-> <<w0>>]

\* a mutant of OutputDense: the width of the hidden projection is used
OutputDenseFixed(N, id, w0) ==
    [id |-> id, kind |-> "Dense", units |-> 768, activation |-> "softmax",
     w |-> <<w0>>]

\* keras.layers.Dense(units=number_of_intents, activation="softmax")(x)
OutputDense(N, id, w0) ==
    [id |-> id, kind |-> "Dense", units |-> N, activation |-> "softmax",
     w |-> <<w0>>]

\* a mutant of LoadStockWeights: a checkpoint that cannot be loaded is skipped
LoadStockWeightsBestEffort(objs, bert, ckpt) ==
    IF ckpt.state = "valid"
    THEN [err |-> "", objs |-> [objs EXCEPT ![bert].w = <<ckpt.w>>]]
    ELSE [err |-> "", objs |-> objs]

\* a mutant of LoadStockWeights: every parameter of the model is written
LoadStockWeightsAll(objs, bert, ckpt) ==
    IF ckpt.state = "valid"
    THEN [err |-> "",
          objs |-> [k \in DOMAIN objs |->
                      IF objs[k].kind \in {"BertModelLayer", "Dense"}
                      THEN [objs[k] EXCEPT !.w = <<ckpt.w>>]
                      ELSE objs[k]]]
    ELSE [err |-> IF ckpt.state = "missing" THEN "AssertionError"
                  ELSE "DataLossError",
          objs |-> objs]

\* load_stock_weights(bert, ckpt): the checkpoint's values, written into the
\* encoder layer's parameters in place; every other object is left alone.
\* A checkpoint that is absent or cannot be read is an error.
LoadStockWeights(objs, bert, ckpt) ==
    IF ckpt.state = "valid"
    THEN [err |-> "", objs |-> [objs EXCEPT ![bert].w = <<ckpt.w>>]]
    ELSE [err |-> IF ckpt.state = "missing" THEN "AssertionError"
                  ELSE "DataLossError",
          objs |-> objs]

\* ------------------------------------------------------ create_model: steps
Step(name) == trace' = Append(trace, name)

\* the objects that exist: those of the models the caller holds and those
\* create_model has built so far
Live ==
    UNION {{m.id} \cup {m.layers[i].id : i \in DOMAIN m.layers} :
             m \in {models[k] : k \in DOMAIN models}}
    \cup DOMAIN frame.objs
    \cup {frame.model[k].id : k \in DOMAIN frame.model}

\* the identity of a newly constructed object: one no existing object has
NewObject(live) ==
    CHOOSE n \in 1..(Cardinality(live) + 1) :
        n \notin live /\ \A k \in 1..(n - 1) : k \in live

nextId == NewObject(Live)

\* a layer is constructed and applied to the current tensor
Alloc(obj) ==
    frame' = [frame EXCEPT !.objs = (nextId :> obj) @@ @,
                           !.tensor = Append(@, nextId)]

\* an exception leaves create_model: the frame is dropped, the with block
\* (when the exception crosses it) closes the reader
Raise(err, r) ==
    /\ pc' = "idle"
    /\ outcome' = "raised"
    /\ ret' = [op |-> "create_model", kind |-> "raise", value |-> err]
    /\ frame' = EmptyFrame
    /\ reader' = r

\* the caller invokes create_model(L, N)
Call ==
    /\ pc = "idle" /\ status = "ready"
    /\ \E L \in 1..MaxSeqLen, N \in 1..MaxIntents : args' = [L |-> L, N |-> N]
    /\ pc' = "gfile"
    /\ trace' = <<>>
    /\ outcome' = "running"
    /\ frame' = EmptyFrame
    /\ reader' = "none"
    /\ ret' = NoValue
    /\ UNCHANGED <<resolver, disk, models, stdout>>

\* with tf.io.gfile.GFile(cls.bert_config) as reader: no handle until a read
EnterWith ==
    /\ pc = "gfile"
    /\ Step("gfile")
    /\ reader' = "unopened"
    /\ pc' = "read"
    /\ UNCHANGED <<resolver, disk, args, frame, outcome, models, ret,
                   stdout>>

\* reader.read()
ReadConfig ==
    /\ pc = "read"
    /\ Step("read")
    /\ IF config_file.state = "missing"
       THEN Raise("NotFoundError", GFileExit(reader))
       ELSE /\ reader' = "open"
            /\ pc' = "parse"
            /\ UNCHANGED <<frame, outcome, ret>>
    /\ UNCHANGED <<resolver, disk, args, models, stdout>>

\* bc = StockBertConfig.from_json_string(...)
ParseConfig ==
    /\ pc = "parse"
    /\ Step("parse")
    /\ LET r == FromJsonString(config_file)
       IN  IF r.err # ""
           THEN Raise(r.err, GFileExit(reader))
           ELSE /\ frame' = [frame EXCEPT !.bc = <<r.bc>>]
                /\ pc' = "map"
                /\ UNCHANGED <<reader, outcome, ret>>
    /\ UNCHANGED <<resolver, disk, args, models, stdout>>

\* bert_params = map_stock_config_to_params(bc)
MapParams ==
    /\ pc = "map"
    /\ Step("map")
    /\ frame' = [frame EXCEPT !.bert_params = <<MapStockConfigToParams(frame.bc[1])>>]
    /\ pc' = "adapter"
    /\ UNCHANGED <<resolver, disk, args, reader, outcome, models, ret,
                   stdout>>

\* bert_params.adapter_size = None
OverrideAdapter ==
    /\ pc = "adapter"
    /\ Step("adapter")
    /\ frame' = [frame EXCEPT !.bert_params = <<DisableAdapter(@[1])>>]
    /\ pc' = "from_params"
    /\ UNCHANGED <<resolver, disk, args, reader, outcome, models, ret,
                   stdout>>

\* bert = BertModelLayer.from_params(bert_params, name="bert")
Instantiate ==
    /\ pc = "from_params"
    /\ Step("from_params")
    /\ frame' = [frame EXCEPT
                   !.objs = (nextId :> FromParams(frame.bert_params[1],
                                                        "bert", nextId)) @@ @,
                   !.bert = <<nextId>>]
    /\ pc' = "exit_with"
    /\ UNCHANGED <<resolver, disk, args, reader, outcome, models, ret,
                   stdout>>

\* the with block ends
ExitWith ==
    /\ pc = "exit_with"
    /\ Step("exit_with")
    /\ reader' = GFileExit(reader)
    /\ pc' = "input"
    /\ UNCHANGED <<resolver, disk, args, frame, outcome, models, ret,
                   stdout>>

\* input_ids = keras.layers.Input(...)
MakeInput ==
    /\ pc = "input"
    /\ Step("input")
    /\ Alloc(InputLayer(args.L, nextId))
    /\ pc' = "bert"
    /\ UNCHANGED <<resolver, disk, args, reader, outcome, models, ret,
                   stdout>>

\* bert_output = bert(input_ids): the encoder is built for the input shape and
\* its parameters get their initial values; an input longer than the
\* position embeddings is refused
CallBert ==
    /\ pc = "bert"
    /\ Step("bert")
    /\ LET b == frame.bert[1]
       IN  IF args.L > frame.objs[b].params.max_position_embeddings
           THEN /\ Raise("InvalidArgumentError", reader)
           ELSE /\ \E w0 \in InitialWeights :
                     frame' = [frame EXCEPT !.objs[b].w = <<w0>>,
                                            !.tensor = Append(@, b)]
                /\ pc' = "lambda"
                /\ UNCHANGED <<reader, outcome, ret>>
    /\ UNCHANGED <<resolver, disk, args, models, stdout>>

\* cls_out = keras.layers.Lambda(lambda seq: seq[:, 0, :])(bert_output)
SelectFirst ==
    /\ pc = "lambda"
    /\ Step("lambda")
    /\ Alloc(FirstToken(nextId))
    /\ pc' = "dropout1"
    /\ UNCHANGED <<resolver, disk, args, reader, outcome, models, ret,
                   stdout>>

\* cls_out = keras.layers.Dropout(0.5)(cls_out)
Dropout1 ==
    /\ pc = "dropout1"
    /\ Step("dropout1")
    /\ Alloc(Dropout(nextId))
    /\ pc' = "dense1"
    /\ UNCHANGED <<resolver, disk, args, reader, outcome, models, ret,
                   stdout>>

\* logits = keras.layers.Dense(units=768, activation="tanh")(cls_out)
Dense1 ==
    /\ pc = "dense1"
    /\ Step("dense1")
    /\ \E w0 \in InitialWeights : Alloc(HiddenDense(nextId, w0))
    /\ pc' = "dropout2"
    /\ UNCHANGED <<resolver, disk, args, reader, outcome, models, ret,
                   stdout>>

\* logits = keras.layers.Dropout(0.5)(logits)
Dropout2 ==
    /\ pc = "dropout2"
    /\ Step("dropout2")
    /\ Alloc(Dropout(nextId))
    /\ pc' = "dense2"
    /\ UNCHANGED <<resolver, disk, args, reader, outcome, models, ret,
                   stdout>>

\* logits = keras.layers.Dense(units=number_of_intents,
\*                             activation="softmax")(logits)
Dense2 ==
    /\ pc = "dense2"
    /\ Step("dense2")
    /\ \E w0 \in InitialWeights : Alloc(OutputDense(args.N, nextId, w0))
    /\ pc' = "model"
    /\ UNCHANGED <<resolver, disk, args, reader, outcome, models, ret,
                   stdout>>

\* model = keras.Model(inputs=input_ids, outputs=logits): the layers on the
\* way from input_ids to logits
MakeModel ==
    /\ pc = "model"
    /\ Step("model")
    /\ frame' = [frame EXCEPT !.model = <<[id |-> nextId, layers |-> frame.tensor]>>]
    /\ pc' = "build"
    /\ UNCHANGED <<resolver, disk, args, reader, outcome, models, ret,
                   stdout>>

\* model.build(input_shape=(None, max_sequence_length)): the layers got their
\* parameters when they were applied to the tensors above; no parameter is
\* touched here
Build ==
    /\ pc = "build"
    /\ Step("build")
    /\ pc' = "load"
    /\ UNCHANGED <<resolver, disk, args, reader, frame, outcome, models, ret,
                   stdout>>

\* load_stock_weights(bert, cls.bert_model)
Load ==
    /\ pc = "load"
    /\ Step("load")
    /\ LET r == LoadStockWeights(frame.objs, frame.bert[1], ckpt_file)
       IN  IF r.err # ""
           THEN Raise(r.err, reader)
           ELSE /\ frame' = [frame EXCEPT !.objs = r.objs]
                /\ pc' = "return"
                /\ UNCHANGED <<reader, outcome, ret>>
    /\ UNCHANGED <<resolver, disk, args, models, stdout>>

\* the model as its holder sees it: the Model object and its layer objects
Returned(f) ==
    [id |-> f.model[1].id,
     layers |-> [i \in 1..Len(f.model[1].layers) |-> f.objs[f.model[1].layers[i]]]]

\* return model: the caller binds the new model and lets the one it held
\* until now go
Return ==
    /\ pc = "return"
    /\ Step("return")
    /\ models' = <<Returned(frame)>>
    /\ ret' = [op |-> "create_model", kind |-> "value", value |-> frame.model[1].id]
    /\ outcome' = "returned"
    /\ frame' = EmptyFrame
    /\ pc' = "idle"
    /\ UNCHANGED <<resolver, disk, args, reader, stdout>>

create_model ==
    \/ Call \/ EnterWith \/ ReadConfig \/ ParseConfig \/ MapParams
    \/ OverrideAdapter \/ Instantiate \/ ExitWith \/ MakeInput \/ CallBert
    \/ SelectFirst \/ Dropout1 \/ Dense1 \/ Dropout2 \/ Dense2 \/ MakeModel
    \/ Build \/ Load \/ Return

\* ------------------------------------------------------------ get_tokenizer
\* a mutant of get_tokenizer: the joined path is stored back in the class
get_tokenizer_rebinding ==
    /\ pc = "idle" /\ status = "ready"
    /\ bert_dir' = PathJoin(bert_dir, <<"vocab.txt">>)
    /\ ret' = [op |-> "get_tokenizer", kind |-> "raise", value |-> "NotFoundError"]
    /\ UNCHANGED <<env, woodgate_base_dir, fs, status, loads, bert_config,
                   bert_model, disk, assembler, stdout>>

\* FullTokenizer(vocab_file=os.path.join(cls.bert_dir, "vocab.txt"))
get_tokenizer ==
    /\ pc = "idle" /\ status = "ready"
    /\ ret' = IF vocab_file.state = "valid"
              THEN [op |-> "get_tokenizer", kind |-> "value",
                    value |-> [vocab_file |-> PathJoin(bert_dir, <<"vocab.txt">>),
                               vocab |-> vocab_file.tokens]]
              ELSE [op |-> "get_tokenizer", kind |-> "raise",
                    value |-> "NotFoundError"]
    /\ UNCHANGED <<resolver, disk, assembler, stdout>>

\* ------------------------------------------------------- ModelSummary.print
\* what keras writes for one layer
SummaryLine(layer) ==
    IF layer.kind \in {"InputLayer", "BertModelLayer"}
    THEN <<layer.kind, layer.name>>
    ELSE <<layer.kind>>

\* return bert_model.summary()
ModelSummary_print ==
    /\ pc = "idle"
    /\ \E i \in 1..Len(models) :
         stdout' = [k \in 1..Len(models[i].layers) |->
                        SummaryLine(models[i].layers[k])]
    /\ ret' = [op |-> "print", kind |-> "value", value |-> None]
    /\ UNCHANGED <<resolver, disk, assembler>>

\* ------------------------------------------------------------ specification
\* the state once the module has been imported: the class body has run
Init ==
    /\ env \in {e \in Environments : e["BERT_CONFIG"] = None /\ e["BERT_MODEL"] = None
                                     /\ e["BERT_DIR"] \in {None, {<<SEP, "enc">>}}}
    /\ woodgate_base_dir = <<SEP, "wg">>
    /\ LET r == ClassBody(env, woodgate_base_dir,
                          [dirs |-> {<<>>, Cwd}, files |-> {}, readonly |-> {}])
       IN  /\ r.err = ""
           /\ fs = r.fs
           /\ bert_dir = r.bert_dir
           /\ bert_config = r.bert_config
           /\ bert_model = r.bert_model
    /\ status = "ready" /\ loads = 1
    /\ config_file \in ConfigFiles
    /\ ckpt_file \in CkptFiles
    /\ vocab_file \in VocabFiles
    /\ pc = "idle" /\ args = <<>> /\ reader = "none" /\ frame = EmptyFrame
    /\ trace = <<>> /\ outcome = "none"
    /\ models = <<>> /\ ret = NoValue /\ stdout = <<>>

Next == create_model \/ get_tokenizer \/ ModelSummary_print

Spec == Init /\ [][Next]_vars

\* ------------------------------------------------------------------ claims
SamePath(p, q) == IsAbs(p) = IsAbs(q) /\ Components(p) = Components(q)

Range(f) == {f[i] : i \in DOMAIN f}

\* C1: after class initialization bert_dir is the BERT_DIR value when set and
\* <base_dir>/bert otherwise, bert_config is the BERT_CONFIG value when set
\* and <bert_dir>/bert_config.json otherwise, bert_model is the BERT_MODEL
\* value when set and <bert_dir>/bert_model.ckpt otherwise; with BERT_DIR
\* overridden and BERT_CONFIG unset the config path lies under the override
\* and not under the base directory.
C1_PathResolution ==
    status = "ready" =>
        /\ IF env["BERT_DIR"] = None
           THEN SamePath(bert_dir, woodgate_base_dir \o <<SEP, "bert">>)
           ELSE env["BERT_DIR"] = {bert_dir}
        /\ IF env["BERT_CONFIG"] = None
           THEN SamePath(bert_config, bert_dir \o <<SEP, "bert_config.json">>)
           ELSE env["BERT_CONFIG"] = {bert_config}
        /\ IF env["BERT_MODEL"] = None
           THEN SamePath(bert_model, bert_dir \o <<SEP, "bert_model.ckpt">>)
           ELSE env["BERT_MODEL"] = {bert_model}
        /\ \A d \in env["BERT_DIR"] :
             env["BERT_CONFIG"] = None =>
                /\ IsPrefix(Resolve(d), Resolve(bert_config))
                /\ ~IsPrefix(Resolve(woodgate_base_dir), Resolve(bert_config))

C1_Witness ==
    /\ status = "ready"
    /\ env["BERT_DIR"] = {<<"enc">>}
    /\ env["BERT_CONFIG"] = None
    /\ env["BERT_MODEL"] = {<<SEP, "m.ckpt">>}
    /\ bert_config = <<"enc", SEP, "bert_config.json">>

\* C2: when class initialization completes the resolved encoder directory
\* exists on disk, whatever existed before; run again where the directory
\* exists, it raises no error, resolves the same directory and leaves the
\* disk as it is.
C2_DirectoryExists ==
    [][loads' = loads + 1 =>
         /\ status' = "ready" => Resolve(bert_dir') \in fs'.dirs
         /\ status = "ready" =>
              /\ status' = "ready"
              /\ bert_dir' = bert_dir
              /\ fs' = fs]_vars

C2_Witness ==
    /\ loads = 2
    /\ status = "ready"
    /\ env["BERT_DIR"] = None
    /\ <<"wg", "bert">> \in fs.dirs

\* C3: when the configuration file is missing or cannot be parsed,
\* create_model raises at the read or at the parse and never reaches the
\* weight loading; in every call the weight loading comes after the read and
\* the parse.
C3_ConfigFailurePrecedesLoad ==
    /\ config_file.state # "valid" =>
          /\ "load" \notin Range(trace)
          /\ pc \in {"idle", "gfile", "read", "parse"}
          /\ outcome # "returned"
          /\ outcome = "raised" =>
                /\ ret.op = "create_model" => ret.kind = "raise"
                /\ trace[Len(trace)] =
                     IF config_file.state = "missing" THEN "read" ELSE "parse"
    /\ \A i \in DOMAIN trace :
          trace[i] = "load" =>
             \E j, k \in 1..(i - 1) :
                j < k /\ trace[j] = "read" /\ trace[k] = "parse"

C3_Witness ==
    /\ config_file.state = "malformed"
    /\ outcome = "raised"
    /\ trace = <<"gfile", "read", "parse">>

\* the encoder layers that exist
Encoders ==
    {o \in Range(frame.objs) \cup UNION {Range(m.layers) : m \in Range(models)} :
        o.kind = "BertModelLayer"}

\* C4: every encoder layer was instantiated with the adapter size disabled
\* (None), whatever adapter setting the configuration holds.
C4_AdapterDisabled == \A b \in Encoders : b.params.adapter_size = None

C4_Witness ==
    /\ config_file.state = "valid"
    /\ config_file.adapter_size = {64}
    /\ pc = "exit_with"
    /\ Encoders # {}

FullTrace ==
    <<"gfile", "read", "parse", "map", "adapter", "from_params", "exit_with",
      "input", "bert", "lambda", "dropout1", "dense1", "dropout2", "dense2",
      "model", "build", "load", "return">>

\* C5: create_model is all-or-nothing: a model is returned only by a call
\* that ran every step once, the weight loading included, with a valid
\* configuration, a valid checkpoint and a sequence length the encoder
\* accepts; a call that fails ends in an error with nothing of the model
\* kept, and no step is run a second time.
C5_AllOrNothing ==
    /\ \A i, j \in DOMAIN trace : i # j => trace[i] # trace[j]
    /\ outcome = "returned" =>
          /\ trace = FullTrace
          /\ pc = "idle"
          /\ models # <<>>
    /\ models # <<>> =>
          /\ config_file.state = "valid"
          /\ ckpt_file.state = "valid"
          /\ \A m \in Range(models) :
                /\ m.layers[1].shape[1] <= config_file.max_position_embeddings
                /\ m.layers[2].w = <<ckpt_file.w>>
    /\ outcome = "raised" =>
          /\ pc = "idle"
          /\ frame = EmptyFrame
          /\ "return" \notin Range(trace)
          /\ ret.op = "create_model" => ret.kind = "raise"
    /\ ret.op = "create_model" /\ ret.kind = "value" => outcome = "returned"

C5_Witness ==
    /\ ckpt_file.state = "unreadable"
    /\ outcome = "raised"
    /\ trace[Len(trace)] = "load"
    /\ ret.kind = "raise"
    /\ models = <<>>

\* C6: create_model, get_tokenizer and ModelSummary.print, whether they
\* succeed or fail, leave bert_dir, bert_config and bert_model as class
\* initialization set them.
C6_PathsReadOnly ==
    [][/\ bert_dir' = bert_dir
       /\ bert_config' = bert_config
       /\ bert_model' = bert_model]_vars

C6_Witness ==
    /\ bert_dir = <<SEP, "enc">>
    /\ bert_config = <<SEP, "enc", SEP, "bert_config.json">>
    /\ outcome = "raised"
    /\ models # <<>>
    /\ stdout # <<>>
    /\ ret.op = "get_tokenizer"

\* the identities of a model's objects
ObjIds(m) == {m.id} \cup {m.layers[i].id : i \in DOMAIN m.layers}

\* a layer without its identity and its parameter values
Shape(layer) ==
    CASE layer.kind = "InputLayer" ->
            [kind |-> layer.kind, name |-> layer.name, shape |-> layer.shape,
             dtype |-> layer.dtype]
      [] layer.kind = "BertModelLayer" ->
            [kind |-> layer.kind, name |-> layer.name, params |-> layer.params]
      [] layer.kind = "Lambda" -> [kind |-> layer.kind, position |-> layer.position]
      [] layer.kind = "Dropout" -> [kind |-> layer.kind, rate |-> layer.rate]
      [] OTHER ->
            [kind |-> layer.kind, units |-> layer.units,
             activation |-> layer.activation]

Architecture(m) == [i \in DOMAIN m.layers |-> Shape(m.layers[i])]

EncoderWeights(m) == {o.w : o \in {x \in Range(m.layers) : x.kind = "BertModelLayer"}}

OutputShape(layer, s) ==
    CASE layer.kind = "InputLayer" -> layer.shape
      [] layer.kind = "BertModelLayer" -> s \o <<layer.params.hidden_size>>
      [] layer.kind = "Lambda" -> Tail(s)
      [] layer.kind = "Dropout" -> s
      [] OTHER -> Front(s) \o <<layer.units>>

RECURSIVE ShapeAfter(_, _)
\* the shape of the tensor that leaves the n-th layer of the chain
ShapeAfter(layers, n) ==
    IF n = 0 THEN <<>>
    ELSE OutputShape(layers[n], ShapeAfter(layers, n - 1))

\* C8: the model returned by create_model(L, N) is the chain int32 input of
\* shape (L,), encoder "bert", selection of position 0, dropout 0.5, dense
\* 768 tanh, dropout 0.5, dense N softmax, with no other layer, and its
\* output has dimension N.
C8_LayerChain ==
    outcome = "returned" =>
        \A m \in Range(models) :
            /\ [i \in DOMAIN m.layers |->
                    IF m.layers[i].kind = "BertModelLayer"
                    THEN [kind |-> m.layers[i].kind, name |-> m.layers[i].name]
                    ELSE Shape(m.layers[i])]
               = << [kind |-> "InputLayer", name |-> "input_ids",
                     shape |-> <<args.L>>, dtype |-> "int32"],
                    [kind |-> "BertModelLayer", name |-> "bert"],
                    [kind |-> "Lambda", position |-> 0],
                    [kind |-> "Dropout", rate |-> <<1, 2>>],
                    [kind |-> "Dense", units |-> 768, activation |-> "tanh"],
                    [kind |-> "Dropout", rate |-> <<1, 2>>],
                    [kind |-> "Dense", units |-> args.N,
                     activation |-> "softmax"] >>
            /\ ShapeAfter(m.layers, Len(m.layers)) = <<args.N>>

C8_Witness ==
    /\ outcome = "returned"
    /\ args = [L |-> 2, N |-> 2]
    /\ Len(models[1].layers) = 7

InWithBlock == {"parse", "map", "adapter", "from_params", "exit_with"}

\* C9 as stated: the configuration file's handle is already closed when the
\* parsing, the mapping, the adapter override and the encoder instantiation
\* take place, and no handle is open when create_model returns or raises.
C9_AsStated ==
    /\ pc \in {"parse", "map", "adapter", "from_params"} => reader # "open"
    /\ pc = "idle" => reader # "open"

\* C9, amended: the configuration file's handle, opened by the read, stays
\* open through the parsing, the mapping, the adapter override and the
\* encoder instantiation and is closed when the with block is left, normally
\* or by an exception: it is closed before the input layer is built, and no
\* handle is open when create_model returns or raises.
C9_HandleScopedToWithBlock ==
    /\ reader = "open" <=> pc \in InWithBlock
    /\ pc \notin InWithBlock \cup {"gfile", "read"} /\ outcome # "none"
          => reader = "closed"

C9_Witness ==
    /\ pc = "input"
    /\ reader = "closed"
    /\ frame.bert # <<>>

\* C10: in a successful call the weight loading runs once, after the model
\* has been assembled and built and right before it is returned; of the
\* steps that follow the assembly it alone changes the model, and it changes
\* nothing but the encoder layer's parameters, which become the
\* checkpoint's: both dense layers keep their initial values.
C10_LoadOnlyWritesEncoder ==
    [][frame.model # <<>> =>
         /\ pc # "load" /\ frame'.model # <<>> => frame' = frame
         /\ pc = "load" /\ pc' = "return" =>
               /\ frame'.model = frame.model
               /\ \A k \in DOMAIN frame.objs :
                     IF k = frame.bert[1]
                     THEN /\ frame'.objs[k] = [frame.objs[k] EXCEPT
                                                 !.w = <<ckpt_file.w>>]
                          /\ k \in Range(frame.model[1].layers)
                     ELSE frame'.objs[k] = frame.objs[k]
         /\ pc = "return" =>
               /\ trace' = FullTrace
               /\ models' = <<Returned(frame)>>]_vars

C10_Witness ==
    /\ outcome = "returned"
    /\ ckpt_file.state = "valid"
    /\ models[1].layers[2].w = <<ckpt_file.w>>
    /\ models[1].layers[5].w = <<0>>
    /\ models[1].layers[7].w = <<1>>
====
